---- MODULE Spec2Model ----
(***************************************************************************)
(* State-machine model of the AIAssistant dialog component                 *)
(* (src/src/components/AIAssistant.tsx).                                   *)
(*                                                                         *)
(* The component stays mounted while `open` is false (it renders null,     *)
(* line 137), so its hook state survives close/reopen.  Every handler and  *)
(* every continuation of the awaited inference call is one atomic step.    *)
(* A handler reads the state of the render that created it: unprimed       *)
(* variables are the values its closure captured.                          *)
(*                                                                         *)
(* Strings are TLA+ strings.  An optional value (T | null | undefined) is  *)
(* Null = <<>> or Some(x) = <<x>>.  Temperatures are in tenths.            *)
(***************************************************************************)
EXTENDS Integers, Sequences, FiniteSets, TLC

VARIABLES
    open,               \* prop `open`
    onClose,            \* prop `onClose` (identity of the callback)
    onApplySuggestion,  \* prop `onApplySuggestion` (optional)
    query,              \* useState('')
    response,           \* useState<AIResponse | null>(null)
    loading,            \* useState(false)
    error,              \* useState<string | null>(null)
    intention,          \* useState('fix')
    listeners,          \* keydown listeners attached to `document`
    inflight,           \* pending callAIAssistantDirect promises
    ev,                 \* the event handled by the last step
    calls,              \* callbacks / browser functions invoked by the last step
    sent                \* requests issued by the last step

vars == <<open, onClose, onApplySuggestion, query, response, loading, error,
          intention, listeners, inflight, ev, calls, sent>>

MaxQueryLen == 2

Null == <<>>

Some(x) == <<x>>

\* JavaScript truthiness of an optional string: null, undefined and '' are falsy.
Truthy(o) == o # Null /\ o[1] # ""

Intentions == {"fix", "optimize", "brainstorm", "explain"}

intentionConfig ==
    [fix        |-> [temperature |-> 1, label |-> "Fix Bugs",
                     description |-> "Precise fixes, low creativity"],
     optimize   |-> [temperature |-> 2, label |-> "Optimize",
                     description |-> "Performance improvements"],
     explain    |-> [temperature |-> 3, label |-> "Explain",
                     description |-> "Clear explanations"],
     brainstorm |-> [temperature |-> 7, label |-> "Brainstorm",
                     description |-> "Creative ideas, high creativity"]]

quickPrompts ==
    << [text |-> "Fix bugs and errors",
        prompt |-> "Please review this code and identify any bugs, errors, or potential issues. Provide fixes and explanations.",
        intention |-> "fix"],
       [text |-> "Optimize performance",
        prompt |-> "Please analyze this code for performance improvements and optimization opportunities. Suggest specific changes.",
        intention |-> "optimize"],
       [text |-> "Add new features",
        prompt |-> "Please suggest how to add new features or functionality to this code. Provide code examples and implementation details.",
        intention |-> "brainstorm"],
       [text |-> "Improve code quality",
        prompt |-> "Please review this code and suggest improvements for readability, maintainability, and best practices.",
        intention |-> "explain"] >>

RequestContext == "WebXR development with A-Frame, Three.js, and modern web technologies"

FallbackMessage == "Failed to get AI response"

ConfirmText == "This suggestion appears to be a complete file replacement. This will replace your entire code. Are you sure you want to continue?"

(***************************************************************************)
(* Inputs of the environment.                                              *)
(***************************************************************************)
CloseCallbacks == {"onCloseA", "onCloseB"}

ApplyCallbacks == {Null, Some("onApplySuggestion")}

Alphabet == {" ", "a"}

RECURSIVE StringsUpTo(_)
StringsUpTo(n) ==
    IF n = 0 THEN {""}
    ELSE LET shorter == StringsUpTo(n - 1)
         IN  shorter \cup {s \o c : s \in shorter, c \in Alphabet}

\* Values the user can put in the query input.
QueryInputs == StringsUpTo(MaxQueryLen)

Keys == {"Escape", "Tab"}

\* Results callAIAssistantDirect can resolve with (confidence in hundredths).
Responses ==
    { [suggestion |-> "<a-scene><a-box></a-box></a-scene>",
       explanation |-> "added a box", confidence |-> 90],
      [suggestion |-> "<!DOCTYPE html><a-scene></a-scene>",
       explanation |-> "full page", confidence |-> 80],
      [suggestion |-> "<body><html lang>",
       explanation |-> "root tag", confidence |-> 70],
      [suggestion |-> "<!doctype><htm>",
       explanation |-> "lower case", confidence |-> 60],
      [suggestion |-> "",
       explanation |-> "nothing to change", confidence |-> 100] }

\* Values callAIAssistantDirect can reject with: Error objects (with or
\* without a message) and a thrown non-Error value.
Failures ==
    { [isError |-> TRUE,  message |-> "Network error"],
      [isError |-> TRUE,  message |-> ""],
      [isError |-> FALSE, message |-> "boom"] }

(***************************************************************************)
(* Pure helpers.                                                           *)
(***************************************************************************)
Whitespace == {" ", "\t", "\n", "\r"}

CharAt(s, i) == SubSeq(s, i, i)

\* String.prototype.trim
Trim(s) ==
    LET solid == {i \in 1..Len(s) : CharAt(s, i) \notin Whitespace}
    IN  IF solid = {} THEN ""
        ELSE LET first == CHOOSE i \in solid : \A j \in solid : i <= j
                 last  == CHOOSE i \in solid : \A j \in solid : j <= i
             IN  SubSeq(s, first, last)

\* String.prototype.includes
Includes(s, needle) ==
    \E i \in 1..(Len(s) - Len(needle) + 1) :
        SubSeq(s, i, i + Len(needle) - 1) = needle

RECURSIVE RemoveOne(_, _)
\* removeEventListener: detaches one registration of handler h.
RemoveOne(ls, h) ==
    IF ls = <<>> THEN <<>>
    ELSE IF Head(ls) = h THEN Tail(ls)
    ELSE <<Head(ls)>> \o RemoveOne(Tail(ls), h)

Call(fn, arg) == [fn |-> fn, arg |-> arg]

(***************************************************************************)
(* Pieces of the handlers.                                                 *)
(***************************************************************************)
\* line 86: const prompt = customPrompt || query
SubmitPrompt(customPrompt) ==
    IF Truthy(customPrompt) THEN customPrompt[1] ELSE query

\* Variant of IsBlankPrompt: the guard tests the prompt without trimming it.
IsBlankPrompt_NoTrim(prompt) == prompt = ""

\* line 87: if (!prompt.trim()) return
IsBlankPrompt(prompt) == Trim(prompt) = ""

\* lines 94-101: the payload, built from the state the handler's render saw
Request(prompt) ==
    [prompt      |-> prompt,
     context     |-> RequestContext,
     temperature |-> intentionConfig[intention].temperature]

\* Variant of SubmitStart: the previous error is not cleared.
SubmitStart_KeepError == [loading |-> TRUE, error |-> error, response |-> Null]

\* lines 89-91: setLoading(true); setError(null); setResponse(null)
SubmitStart == [loading |-> TRUE, error |-> Null, response |-> Null]

\* Variant of ResolveState: loading is not cleared on success.
ResolveState_NoFinally(data) ==
    [loading |-> loading, error |-> error, response |-> Some(data)]

\* lines 102, 107: setResponse(data); finally setLoading(false)
ResolveState(data) ==
    [loading |-> FALSE, error |-> error, response |-> Some(data)]

\* line 104: err instanceof Error ? err.message : 'Failed to get AI response'
ErrorMessage(err) == IF err.isError THEN err.message ELSE FallbackMessage

\* lines 104, 107: setError(...); finally setLoading(false)
RejectState(err) ==
    [loading |-> FALSE, error |-> Some(ErrorMessage(err)), response |-> response]

\* Variant of LooksLikeFullDocument: only the doctype marker is tested.
LooksLikeFullDocument_DoctypeOnly(s) == Includes(s, "<!DOCTYPE")

\* line 123: the suggestion looks like a complete file replacement
LooksLikeFullDocument(s) == Includes(s, "<!DOCTYPE") \/ Includes(s, "<html")

\* Variant of ApplyCalls: the confirmation is asked for every suggestion.
ApplyCalls_AlwaysConfirm(answer) ==
    IF Truthy(IF response = Null THEN Null ELSE Some(response[1].suggestion))
       /\ onApplySuggestion # Null
    THEN LET s == response[1].suggestion
             asked == <<Call("window.confirm", ConfirmText)>>
         IN  IF ~answer
             THEN asked
             ELSE asked \o <<Call(onApplySuggestion[1], s), Call(onClose, "")>>
    ELSE <<>>

\* lines 119-135: what handleApplySuggestion invokes, in order, when
\* window.confirm (if shown) answers `answer`
ApplyCalls(answer) ==
    IF Truthy(IF response = Null THEN Null ELSE Some(response[1].suggestion))
       /\ onApplySuggestion # Null
    THEN LET s == response[1].suggestion
             asked == IF LooksLikeFullDocument(s)
                      THEN <<Call("window.confirm", ConfirmText)>> ELSE <<>>
         IN  IF asked # <<>> /\ ~answer
             THEN asked
             ELSE asked \o <<Call(onApplySuggestion[1], s), Call(onClose, "")>>
    ELSE <<>>

\* lines 46-50: one keydown listener handling one key
HandleEscape(h, key) ==
    IF key = "Escape" /\ h.open THEN <<Call(h.onClose, "")>> ELSE <<>>

RECURSIVE Dispatch(_, _)
\* document dispatches a keydown event to its listeners in attachment order
Dispatch(ls, key) ==
    IF ls = <<>> THEN <<>>
    ELSE HandleEscape(Head(ls), key) \o Dispatch(Tail(ls), key)

\* Variant of EffectListeners: the effect returns no cleanup.
EffectListeners_NoCleanup(o, c) ==
    IF o THEN Append(listeners, [open |-> o, onClose |-> c]) ELSE listeners

\* lines 45-56: the effect for deps [o, c]: the previous effect's cleanup
\* (returned only if it ran with open = true) runs first, then the new effect
EffectListeners(o, c) ==
    LET previous == [open |-> open, onClose |-> onClose]
        cleaned  == IF open THEN RemoveOne(listeners, previous) ELSE listeners
    IN  IF o THEN Append(cleaned, [open |-> o, onClose |-> c]) ELSE cleaned

\* Variant of QuickPromptDisabled: the quick-action buttons are never disabled.
QuickPromptDisabled_Never == FALSE

\* line 222: disabled={loading}
QuickPromptDisabled == loading

\* line 241: disabled={loading}
InputDisabled == loading

\* line 245: disabled={loading || !query.trim()}
AskDisabled == loading \/ Trim(query) = ""

\* lines 256, 270, 285, 313: the views of the response area
Views ==
    (IF loading THEN {"loading"} ELSE {})
    \cup (IF Truthy(error) THEN {"error"} ELSE {})
    \cup (IF response # Null THEN {"response"} ELSE {})
    \cup (IF ~loading /\ ~Truthy(error) /\ response = Null THEN {"idle"} ELSE {})

(***************************************************************************)
(* Initial state: mounted by the caller with the dialog closed.            *)
(***************************************************************************)
Init ==
    /\ open = FALSE
    /\ onClose = "onCloseA"
    /\ onApplySuggestion = Some("onApplySuggestion")
    /\ query = ""
    /\ response = Null
    /\ loading = FALSE
    /\ error = Null
    /\ intention = "fix"
    /\ listeners = <<>>
    /\ inflight = <<>>
    /\ ev = [type |-> "mount"]
    /\ calls = <<>>
    /\ sent = <<>>

(***************************************************************************)
(* Actions.                                                                *)
(***************************************************************************)
\* The caller re-renders the component with new props.
SetProps(o, c, a) ==
    /\ <<o, c, a>> # <<open, onClose, onApplySuggestion>>
    /\ open' = o
    /\ onClose' = c
    /\ onApplySuggestion' = a
    /\ listeners' = IF <<o, c>> # <<open, onClose>>
                    THEN EffectListeners(o, c) ELSE listeners
    /\ ev' = [type |-> "setProps"]
    /\ calls' = <<>>
    /\ sent' = <<>>
    /\ UNCHANGED <<query, response, loading, error, intention, inflight>>

\* A key goes down anywhere in the document.
KeyDown(key) ==
    /\ calls' = Dispatch(listeners, key)
    /\ ev' = [type |-> "keydown", key |-> key]
    /\ sent' = <<>>
    /\ UNCHANGED <<open, onClose, onApplySuggestion, query, response, loading,
                   error, intention, listeners, inflight>>

\* lines 142-146: a click lands on the backdrop or on one of its descendants.
ClickOverlay(onBackdrop) ==
    /\ open
    /\ calls' = IF onBackdrop THEN <<Call(onClose, "")>> ELSE <<>>
    /\ ev' = [type |-> "clickOverlay", onBackdrop |-> onBackdrop]
    /\ sent' = <<>>
    /\ UNCHANGED <<open, onClose, onApplySuggestion, query, response, loading,
                   error, intention, listeners, inflight>>

\* line 166: the close button.
ClickClose ==
    /\ open
    /\ calls' = <<Call(onClose, "")>>
    /\ ev' = [type |-> "clickClose"]
    /\ sent' = <<>>
    /\ UNCHANGED <<open, onClose, onApplySuggestion, query, response, loading,
                   error, intention, listeners, inflight>>

\* line 181: an intention button.
SelectIntention(i) ==
    /\ open
    /\ intention' = i
    /\ ev' = [type |-> "selectIntention", intention |-> i]
    /\ calls' = <<>>
    /\ sent' = <<>>
    /\ UNCHANGED <<open, onClose, onApplySuggestion, query, response, loading,
                   error, listeners, inflight>>

\* line 237: the user edits the query input.
ChangeQuery(q) ==
    /\ open
    /\ ~InputDisabled
    /\ q # query
    /\ query' = q
    /\ ev' = [type |-> "changeQuery"]
    /\ calls' = <<>>
    /\ sent' = <<>>
    /\ UNCHANGED <<open, onClose, onApplySuggestion, response, loading, error,
                   intention, listeners, inflight>>

\* lines 85-101: handleSubmit up to the await.
HandleSubmit(customPrompt) ==
    LET prompt == SubmitPrompt(customPrompt)
    IN  IF IsBlankPrompt(prompt)
        THEN /\ sent' = <<>>
             /\ UNCHANGED <<loading, error, response, inflight>>
        ELSE /\ loading' = SubmitStart.loading
             /\ error' = SubmitStart.error
             /\ response' = SubmitStart.response
             /\ inflight' = Append(inflight, Request(prompt))
             /\ sent' = <<Request(prompt)>>

\* line 240: Enter in the query input.
PressEnter ==
    /\ open
    /\ ~InputDisabled
    /\ HandleSubmit(Null)
    /\ ev' = [type |-> "submit", custom |-> Null]
    /\ calls' = <<>>
    /\ UNCHANGED <<open, onClose, onApplySuggestion, query, intention, listeners>>

\* line 244: the Ask button.
ClickAsk ==
    /\ open
    /\ ~AskDisabled
    /\ HandleSubmit(Null)
    /\ ev' = [type |-> "submit", custom |-> Null]
    /\ calls' = <<>>
    /\ UNCHANGED <<open, onClose, onApplySuggestion, query, intention, listeners>>

\* lines 111-117, 220: a quick-action button.
HandleQuickPrompt(p) ==
    /\ open
    /\ ~QuickPromptDisabled
    /\ intention' = IF quickPrompts[p].intention # "" THEN quickPrompts[p].intention
                    ELSE intention
    /\ query' = quickPrompts[p].prompt
    /\ HandleSubmit(Some(quickPrompts[p].prompt))
    /\ ev' = [type |-> "quickPrompt", index |-> p,
              custom |-> Some(quickPrompts[p].prompt)]
    /\ calls' = <<>>
    /\ UNCHANGED <<open, onClose, onApplySuggestion, listeners>>

\* lines 102, 106-108: the i-th pending call resolves with data.
Resolve(i, data) ==
    /\ i \in 1..Len(inflight)
    /\ inflight' = SubSeq(inflight, 1, i - 1) \o SubSeq(inflight, i + 1, Len(inflight))
    /\ loading' = ResolveState(data).loading
    /\ error' = ResolveState(data).error
    /\ response' = ResolveState(data).response
    /\ ev' = [type |-> "resolve", data |-> data]
    /\ calls' = <<>>
    /\ sent' = <<>>
    /\ UNCHANGED <<open, onClose, onApplySuggestion, query, intention, listeners>>

\* lines 103-108: the i-th pending call rejects with err.
Reject(i, err) ==
    /\ i \in 1..Len(inflight)
    /\ inflight' = SubSeq(inflight, 1, i - 1) \o SubSeq(inflight, i + 1, Len(inflight))
    /\ loading' = RejectState(err).loading
    /\ error' = RejectState(err).error
    /\ response' = RejectState(err).response
    /\ ev' = [type |-> "reject", err |-> err]
    /\ calls' = <<Call("console.error", "AI Assistant error:")>>
    /\ sent' = <<>>
    /\ UNCHANGED <<open, onClose, onApplySuggestion, query, intention, listeners>>

\* line 304: the Apply Suggestion button, rendered when response is set.
ClickApply(answer) ==
    /\ open
    /\ response # Null
    /\ calls' = ApplyCalls(answer)
    /\ ev' = [type |-> "apply", answer |-> answer]
    /\ sent' = <<>>
    /\ UNCHANGED <<open, onClose, onApplySuggestion, query, response, loading,
                   error, intention, listeners, inflight>>

Next ==
    \/ \E o \in BOOLEAN, c \in CloseCallbacks, a \in ApplyCallbacks : SetProps(o, c, a)
    \/ \E key \in Keys : KeyDown(key)
    \/ \E b \in BOOLEAN : ClickOverlay(b)
    \/ ClickClose
    \/ \E i \in Intentions : SelectIntention(i)
    \/ \E q \in QueryInputs : ChangeQuery(q)
    \/ PressEnter
    \/ ClickAsk
    \/ \E p \in 1..Len(quickPrompts) : HandleQuickPrompt(p)
    \/ \E i \in 1..Len(inflight), data \in Responses : Resolve(i, data)
    \/ \E i \in 1..Len(inflight), err \in Failures : Reject(i, err)
    \/ \E answer \in BOOLEAN : ClickApply(answer)

Spec == Init /\ [][Next]_vars

(***************************************************************************)
(* Properties.                                                             *)
(***************************************************************************)
\* The temperature each intention declares (section 4.2), in tenths.
DeclaredTemperature == [fix |-> 1, optimize |-> 2, brainstorm |-> 7, explain |-> 3]

\* A string with no character other than white space.
IsBlank(s) == \A i \in 1..Len(s) : CharAt(s, i) \in {" ", "\t", "\n", "\r"}

\* A string that contains one of the two full-document markers.
ContainsMarker(s) ==
    \/ \E i \in 1..(Len(s) - 8) : SubSeq(s, i, i + 8) = "<!DOCTYPE"
    \/ \E i \in 1..(Len(s) - 4) : SubSeq(s, i, i + 4) = "<html"

\* C1: the step of a quick prompt P issues exactly one request, carrying P's
\* prompt text and the temperature of P's declared intention, sets the query
\* to P's prompt text and leaves P's intention selected.
C1_QuickPromptUsesDeclaredIntention ==
    ev.type = "quickPrompt" =>
        LET P == quickPrompts[ev.index]
        IN  /\ Len(sent) = 1
            /\ sent[1].prompt = P.prompt
            /\ sent[1].temperature = DeclaredTemperature[P.intention]
            /\ query = P.prompt
            /\ intention = P.intention

\* C2: a submit whose effective prompt (the explicit prompt if given, else the
\* query field) is empty or white space only issues no request and leaves
\* loading, response, error, query and intention as they were.
C2_BlankSubmitIsNoOp ==
    [][ (/\ ev'.type \in {"submit", "quickPrompt"}
         /\ IsBlank(IF ev'.custom # Null THEN ev'.custom[1] ELSE query))
        => /\ sent' = <<>>
           /\ inflight' = inflight
           /\ UNCHANGED <<loading, response, error, query, intention>> ]_vars

C2_Witness ==
    /\ ev.type = "submit"
    /\ query # ""
    /\ IsBlank(query)
    /\ sent = <<>>
    /\ error # Null
    /\ ~loading

\* C3: right after a request completes successfully, loading is false, the
\* response is the returned result and error is null.
C3_SuccessState ==
    ev.type = "resolve" =>
        /\ ~loading
        /\ response = Some(ev.data)
        /\ error = Null

C3_Witness ==
    /\ ev.type = "resolve"
    /\ response = Some(ev.data)
    /\ ~loading
    /\ inflight = <<>>

\* C4: right after a request fails, whatever the failure, loading is false,
\* response is null and error holds a non-empty message.
C4_FailureState ==
    ev.type = "reject" =>
        /\ ~loading
        /\ response = Null
        /\ error # Null
        /\ error[1] # ""

\* C5: with a response present and an apply callback provided, applying a
\* suggestion that contains a full-document marker first asks for
\* confirmation; declined, neither callback runs and response, loading and
\* error stay; confirmed, the apply callback runs once with the suggestion
\* and then the close callback runs once.
C5_FullDocumentApply ==
    [][ (/\ ev'.type = "apply"
         /\ response # Null
         /\ onApplySuggestion # Null
         /\ ContainsMarker(response[1].suggestion))
        => IF ev'.answer
           THEN calls' = << Call("window.confirm", ConfirmText),
                            Call(onApplySuggestion[1], response[1].suggestion),
                            Call(onClose, "") >>
           ELSE /\ calls' = << Call("window.confirm", ConfirmText) >>
                /\ UNCHANGED <<response, loading, error>> ]_vars

C5_Witness ==
    /\ ev.type = "apply"
    /\ ev.answer
    /\ response # Null
    /\ Len(calls) = 3
    /\ calls[1].fn = "window.confirm"
    /\ calls[2] = Call("onApplySuggestion", response[1].suggestion)
    /\ calls[3] = Call(onClose, "")

\* C6 as stated: with a response present and an apply callback provided,
\* applying any suggestion that contains neither marker invokes the apply
\* callback with the suggestion, with no confirmation, and then the close
\* callback.
C6_PartialApply_Original ==
    [][ (/\ ev'.type = "apply"
         /\ response # Null
         /\ onApplySuggestion # Null
         /\ ~ContainsMarker(response[1].suggestion))
        => calls' = << Call(onApplySuggestion[1], response[1].suggestion),
                       Call(onClose, "") >> ]_vars

\* C6 amended: the same for every non-empty suggestion that contains neither
\* marker; for the empty suggestion the apply action invokes nothing.
C6_PartialApply ==
    [][ (/\ ev'.type = "apply"
         /\ response # Null
         /\ onApplySuggestion # Null
         /\ ~ContainsMarker(response[1].suggestion))
        => calls' = IF response[1].suggestion # ""
                    THEN << Call(onApplySuggestion[1], response[1].suggestion),
                            Call(onClose, "") >>
                    ELSE <<>> ]_vars

C6_Witness ==
    /\ ev.type = "apply"
    /\ response # Null
    /\ response[1].suggestion # ""
    /\ ~ContainsMarker(response[1].suggestion)
    /\ calls = << Call("onApplySuggestion", response[1].suggestion),
                  Call(onClose, "") >>

\* C7: an Escape key press while the dialog is open invokes the current close
\* callback exactly once, and while it is closed invokes nothing; exactly one
\* Escape listener is attached while open and none while closed.
C7_EscapeClosesOnce ==
    /\ Len(listeners) = (IF open THEN 1 ELSE 0)
    /\ (ev.type = "keydown" /\ ev.key = "Escape") =>
           calls = (IF open THEN << Call(onClose, "") >> ELSE <<>>)

C7_Witness ==
    /\ ev.type = "keydown"
    /\ ev.key = "Escape"
    /\ open
    /\ onClose = "onCloseB"
    /\ calls = << Call("onCloseB", "") >>

\* C8: while the dialog is open exactly one of the four views is rendered,
\* and at most one of loading, error and response is populated.
C8_OneView ==
    /\ open => Cardinality(Views) = 1
    /\ Cardinality({f \in {"loading", "error", "response"} :
                      \/ f = "loading" /\ loading
                      \/ f = "error" /\ error # Null
                      \/ f = "response" /\ response # Null}) <= 1

C8_Witness ==
    /\ open
    /\ ev.type = "submit"
    /\ Views = {"loading"}
    /\ sent # <<>>

\* C9: the completion of a request while the dialog is closed changes none of
\* loading, response and error.
C9_LateCompletionIgnored ==
    [][ (ev'.type \in {"resolve", "reject"} /\ ~open)
        => UNCHANGED <<loading, response, error>> ]_vars

\* C10: at most one request is in flight at any time, and a request is issued
\* only while loading is false and no request is pending.
C10_SingleFlight ==
    [][ /\ Len(inflight') <= 1
        /\ sent' # <<>> => (~loading /\ inflight = <<>>) ]_vars

C10_Witness ==
    /\ ev.type = "setProps"
    /\ open
    /\ loading
    /\ Len(inflight) = 1

====
